---- MODULE Spec2Model ----
(***************************************************************************)
(* Chat-history-keyed conversation state of                                *)
(* notebooks/prompting/01-basic-prompt-structures.ipynb:                   *)
(*   InMemoryHistory   a history object holding a list of messages         *)
(*   store             the process-wide dict session id -> history object  *)
(*   get_by_session_id the get-or-create lookup handed to the runner       *)
(*   conversation      RunnableWithMessageHistory(prompt | llm, ...)       *)
(* History objects are modelled with identity: the heap is the sequence of *)
(* allocated InMemoryHistory objects, an object is named by its index.     *)
(***************************************************************************)
EXTENDS Integers, Sequences, FiniteSets, TLC

VARIABLES store, heap, pc, cur, pre, result

vars == <<store, heap, pc, cur, pre, result>>

(* ---- bounds ---- *)
\* longest history a runner call is started on, plus the turn it records
MaxLen == 4
\* longest history built by calling add_messages on a history object directly
MaxDirect == 2

(* ---- inputs ---- *)
Sessions == {"foo", "bar"}
Questions == {"Q1", "Q2"}
Answers == {"A1"}
Errors == {"ModelError"}

HumanMessage(text) == [role |-> "human", content |-> text]
AIMessage(text) == [role |-> "ai", content |-> text]

Messages == {HumanMessage(q) : q \in Questions} \cup {AIMessage(a) : a \in Answers}

MsgLists == {<<>>} \cup {<<m>> : m \in Messages}
              \cup {<<m1, m2>> : m1 \in Messages, m2 \in Messages}

(* ---- InMemoryHistory ---- *)
\* variant: every session is handed one shared history object
NewHistoryId_shared(hp) == 1

\* InMemoryHistory(): a new object whose messages field is a fresh empty list
NewHistoryId(hp) == Len(hp) + 1

InMemoryHistory(hp) == Append(hp, <<>>)

\* variant: the new messages are inserted in front of the stored ones
add_messages_front(hp, id, messages) == [hp EXCEPT ![id] = messages \o @]

\* variant: the new messages replace the stored ones
add_messages_replace(hp, id, messages) == [hp EXCEPT ![id] = messages]

\* self.messages.extend(messages)
add_messages(hp, id, messages) == [hp EXCEPT ![id] = @ \o messages]

\* self.messages = []
clear(hp, id) == [hp EXCEPT ![id] = <<>>]

(* ---- store / get_by_session_id ---- *)
\* variant: the membership test is missing, every lookup creates and rebinds
get_by_session_id_rebind(st, hp, session_id) ==
    [store |-> [k \in DOMAIN st \cup {session_id} |->
                   IF k = session_id THEN Len(hp) + 1 ELSE st[k]],
     heap  |-> Append(hp, <<>>),
     ret   |-> Len(hp) + 1]

\* variant: the session id is ignored, every lookup uses the key "foo"
get_by_session_id_onekey(st, hp, session_id) ==
    IF "foo" \notin DOMAIN st
    THEN [store |-> [k \in DOMAIN st \cup {"foo"} |->
                        IF k = "foo" THEN Len(hp) + 1 ELSE st[k]],
          heap  |-> Append(hp, <<>>),
          ret   |-> Len(hp) + 1]
    ELSE [store |-> st, heap |-> hp, ret |-> st["foo"]]

\* variant: a new history is created and returned but never inserted
get_by_session_id_noinsert(st, hp, session_id) ==
    IF session_id \notin DOMAIN st
    THEN [store |-> st, heap |-> Append(hp, <<>>), ret |-> Len(hp) + 1]
    ELSE [store |-> st, heap |-> hp, ret |-> st[session_id]]

get_by_session_id(st, hp, session_id) ==
    IF session_id \notin DOMAIN st
    THEN [store |-> [k \in DOMAIN st \cup {session_id} |->
                        IF k = session_id THEN NewHistoryId(hp) ELSE st[k]],
          heap  |-> InMemoryHistory(hp),
          ret   |-> NewHistoryId(hp)]
    ELSE [store |-> st, heap |-> hp, ret |-> st[session_id]]

(* ---- prompt ---- *)
\* variant: the history placeholder is dropped (a single-turn prompt)
prompt_single(history, question) == <<HumanMessage(question)>>

\* ChatPromptTemplate: MessagesPlaceholder("history") then ("human", "{question}")
prompt(history, question) == history \o <<HumanMessage(question)>>

\* the request conversation.invoke builds for a session and a question
RequestFor(st, hp, session_id, question) ==
    LET r == get_by_session_id(st, hp, session_id) IN prompt(r.heap[r.ret], question)

(* ---- views of the state ---- *)
\* the store as a value: session id -> list of messages
ViewOf(st, hp) == [s \in DOMAIN st |-> hp[st[s]]]

View == ViewOf(store, heap)

HistIn(v, s) == IF s \in DOMAIN v THEN v[s] ELSE <<>>

NoCall == [sid |-> "", hist |-> 0, question |-> "", request |-> <<>>]
NoResult == [kind |-> "none", val |-> ""]
NoPre == <<>>

Init ==
    /\ store = <<>>
    /\ heap = <<>>
    /\ pc = "idle"
    /\ cur = NoCall
    /\ pre = NoPre
    /\ result = NoResult

(* ---- direct use of the store ---- *)
GetBySessionId(s) ==
    /\ pc = "idle"
    /\ LET r == get_by_session_id(store, heap, s) IN
         /\ store' = r.store
         /\ heap' = r.heap
         /\ result' = [kind |-> "history", val |-> r.ret]
    /\ UNCHANGED <<pc, cur, pre>>

(* ---- conversation.invoke: up to the call of the model ---- *)
Invoke(s, q) ==
    /\ pc = "idle"
    /\ Len(HistIn(View, s)) + 2 <= MaxLen
    /\ LET r == get_by_session_id(store, heap, s) IN
         /\ store' = r.store
         /\ heap' = r.heap
         /\ cur' = [sid |-> s, hist |-> r.ret, question |-> q,
                    request |-> RequestFor(store, heap, s, q)]
    /\ pre' = View
    /\ pc' = "calling"
    /\ result' = NoResult

\* variant: only the model's answer is recorded, the input message is lost
ModelOk_answeronly(a) ==
    /\ pc = "calling"
    /\ heap' = add_messages(heap, cur.hist, <<AIMessage(a)>>)
    /\ result' = [kind |-> "ok", val |-> a]
    /\ pc' = "idle"
    /\ cur' = NoCall
    /\ pre' = NoPre
    /\ UNCHANGED store

(* ---- the model answers: the runner records the turn and returns ---- *)
ModelOk(a) ==
    /\ pc = "calling"
    /\ heap' = add_messages(heap, cur.hist, <<HumanMessage(cur.question), AIMessage(a)>>)
    /\ result' = [kind |-> "ok", val |-> a]
    /\ pc' = "idle"
    /\ cur' = NoCall
    /\ pre' = NoPre
    /\ UNCHANGED store

\* variant: the input message is recorded although the model failed
ModelFail_partial(e) ==
    /\ pc = "calling"
    /\ heap' = add_messages(heap, cur.hist, <<HumanMessage(cur.question)>>)
    /\ result' = [kind |-> "error", val |-> e]
    /\ pc' = "idle"
    /\ cur' = NoCall
    /\ pre' = NoPre
    /\ UNCHANGED store

(* ---- the model fails: the error propagates, nothing is recorded ---- *)
ModelFail(e) ==
    /\ pc = "calling"
    /\ result' = [kind |-> "error", val |-> e]
    /\ pc' = "idle"
    /\ cur' = NoCall
    /\ pre' = NoPre
    /\ UNCHANGED <<store, heap>>

(* ---- direct use of a history object ---- *)
AddMessages(s, msgs) ==
    /\ pc = "idle"
    /\ s \in DOMAIN store
    /\ Len(heap[store[s]]) + Len(msgs) <= MaxDirect
    /\ heap' = add_messages(heap, store[s], msgs)
    /\ result' = NoResult
    /\ UNCHANGED <<store, pc, cur, pre>>

Clear(s) ==
    /\ pc = "idle"
    /\ s \in DOMAIN store
    /\ heap' = clear(heap, store[s])
    /\ result' = NoResult
    /\ UNCHANGED <<store, pc, cur, pre>>

Next ==
    \/ \E s \in Sessions : GetBySessionId(s)
    \/ \E s \in Sessions, q \in Questions : Invoke(s, q)
    \/ \E a \in Answers : ModelOk(a)
    \/ \E e \in Errors : ModelFail(e)

Spec == Init /\ [][Next]_vars

NextOps ==
    \/ \E s \in Sessions : GetBySessionId(s)
    \/ \E s \in Sessions, q \in Questions : Invoke(s, q)
    \/ \E a \in Answers : ModelOk(a)
    \/ \E e \in Errors : ModelFail(e)
    \/ \E s \in Sessions, msgs \in MsgLists : AddMessages(s, msgs)
    \/ \E s \in Sessions : Clear(s)

SpecOps == Init /\ [][NextOps]_vars

(***************************************************************************)
(* Properties                                                              *)
(***************************************************************************)
IsPrefix(a, b) == Len(a) <= Len(b) /\ SubSeq(b, 1, Len(a)) = a

\* v with session s added as an empty history when it is not a key of v
Ext(v, s) == [k \in DOMAIN v \cup {s} |-> IF k \in DOMAIN v THEN v[k] ELSE <<>>]

IsInvokeStep == pc = "idle" /\ pc' = "calling"
IsOkStep == pc = "calling" /\ pc' = "idle" /\ result'.kind = "ok"
IsFailStep == pc = "calling" /\ pc' = "idle" /\ result'.kind # "ok"

\* C1: a session that is new starts with the empty history, each successful
\* respond(s, Q) answered A turns the history of s into the history the call
\* started from followed by user(Q), assistant(A), and no other runner step
\* changes a stored history; so n successful calls leave the 2n messages
\* user(Q1), assistant(A1), ..., user(Qn), assistant(An) in call order.
C1_TurnsInCallOrder ==
    [][ /\ \A s \in DOMAIN store' \ DOMAIN store : View'[s] = <<>>
        /\ IsOkStep =>
             HistIn(View', cur.sid) =
                 HistIn(pre, cur.sid) \o
                     <<HumanMessage(cur.question), AIMessage(result'.val)>>
        /\ \A s \in DOMAIN store :
             (~IsOkStep \/ s # cur.sid) => HistIn(View', s) = View[s]
      ]_vars

\* two successful calls on one session: four messages, the questions distinct
C1_Witness ==
    /\ result.kind = "ok"
    /\ \E s \in DOMAIN store :
         /\ Len(View[s]) = 4
         /\ View[s][1] = HumanMessage("Q1")
         /\ View[s][2].role = "ai"
         /\ View[s][3] = HumanMessage("Q2")
         /\ View[s][4] = AIMessage(result.val)

\* C2: a call in which the model fails ends in the model's error, and the
\* history of its session is then the history the session had before the
\* call, message for message.
C2_FailedTurnNotRecorded ==
    [][ IsFailStep =>
          /\ result'.kind = "error"
          /\ result'.val \in Errors
          /\ Len(HistIn(View', cur.sid)) = Len(HistIn(pre, cur.sid))
          /\ HistIn(View', cur.sid) = HistIn(pre, cur.sid)
      ]_vars

\* a failed call has just returned on top of a recorded turn
C2_Witness ==
    /\ result.kind = "error"
    /\ \E s \in DOMAIN store : Len(View[s]) = 2

\* C3: the request handed to the model is the history of the session as it
\* stood when the call started followed by the new user message; it has one
\* message more than that history (2(k-1)+1 for the k-th turn) and is the
\* single new message for a session that is new.
C3_RequestIsHistoryPlusQuestion ==
    pc = "calling" =>
      LET h == HistIn(pre, cur.sid) IN
        /\ cur.request = h \o <<HumanMessage(cur.question)>>
        /\ Len(cur.request) = 2 * (Len(h) \div 2) + 1
        /\ cur.request[Len(cur.request)] = HumanMessage(cur.question)
        /\ cur.sid \notin DOMAIN pre => cur.request = <<HumanMessage(cur.question)>>

\* the second turn of a session is in flight: two earlier messages are carried
C3_Witness ==
    /\ pc = "calling"
    /\ Len(cur.request) = 3
    /\ cur.request[1].role = "human"
    /\ cur.request[2].role = "ai"

\* C4: the request built for a session does not depend on what is recorded
\* under another session: replacing the other session's history by any other
\* list of messages leaves the request the same.
C4_NoLeakBetweenSessions ==
    \A s \in Sessions, q \in Questions :
      \A t \in DOMAIN store \ {s} :
        \A alt \in MsgLists :
          RequestFor(store, [heap EXCEPT ![store[t]] = alt], s, q)
              = RequestFor(store, heap, s, q)

\* a call on foo is in flight while bar holds a different recorded turn
C4_Witness ==
    /\ pc = "calling"
    /\ cur.sid = "foo"
    /\ "bar" \in DOMAIN store
    /\ Len(View["bar"]) = 2
    /\ Len(cur.request) = 3
    /\ View["bar"] # View["foo"]

\* C5: a step that appends to the history of one session leaves the history
\* of every other session unchanged.
C5_HistoriesIndependent ==
    [][ \A s1 \in DOMAIN store : \A s2 \in DOMAIN store \ {s1} :
          (IsPrefix(View[s1], HistIn(View', s1)) /\ HistIn(View', s1) # View[s1])
              => HistIn(View', s2) = View[s2]
      ]_vars

\* foo was appended to directly and by a turn while bar holds its own turn
C5_Witness ==
    /\ DOMAIN store = Sessions
    /\ Len(View["foo"]) = 3
    /\ Len(View["bar"]) = 2

\* C6: a key of the store stays bound to the history object it was first
\* bound to, a lookup of a key returns that object, and no two keys are
\* bound to the same object.
C6_IdentityStable ==
    [][ /\ \A s \in DOMAIN store : s \in DOMAIN store' /\ store'[s] = store[s]
        /\ \A s \in Sessions :
             (GetBySessionId(s) /\ s \in DOMAIN store) => result'.val = store[s]
        /\ \A s \in Sessions : GetBySessionId(s) => result'.val = store'[s]
        /\ \A s1 \in DOMAIN store' : \A s2 \in DOMAIN store' :
             s1 # s2 => store'[s1] # store'[s2]
      ]_vars

\* a session that already holds messages has been looked up again
C6_Witness ==
    /\ result.kind = "history"
    /\ DOMAIN store = Sessions
    /\ \E s \in DOMAIN store : store[s] = result.val /\ Len(View[s]) > 0

\* C7 as stated: every operation, clear included, keeps the history before
\* it as a prefix of the history after it.
C7_AppendOnlyAllOps ==
    [][ \A s \in DOMAIN store : IsPrefix(View[s], HistIn(View', s)) ]_vars

\* C7 amended: add_messages and every runner step keep the history before
\* the step as a prefix of the history after it; clear is the one operation
\* that does not, it leaves the history empty.
C7_AppendOnlyExceptClear ==
    [][ \A s \in DOMAIN store :
          \/ IsPrefix(View[s], HistIn(View', s))
          \/ (Clear(s) /\ HistIn(View', s) = <<>>)
      ]_vars

\* a history grown by add_messages alone, and one cleared after a turn
C7_Witness ==
    /\ DOMAIN store = Sessions
    /\ Len(View["foo"]) = 3
    /\ View["bar"] = <<>>
    /\ \E i \in 1..Len(heap) : Len(heap[i]) = 3

\* C8 as stated: a call whose model invocation fails leaves the whole store,
\* its set of session identifiers included, as it was before the call.
C8_FailedCallLeavesStore ==
    [][ IsFailStep => View' = pre ]_vars

\* C8 amended: within a respond call the recorded messages change only in
\* the append step after a successful answer, and only for the session of
\* the call; the set of keys changes only in the fetch step, which adds the
\* session of the call with an empty history when it is new. A failed call
\* therefore leaves the store as it was before the call except that a new
\* session is now present with an empty history.
C8_StoreChangedByFetchAndAppend ==
    [][ /\ IsInvokeStep => View' = Ext(View, cur'.sid)
        /\ IsFailStep => (View' = View /\ View' = Ext(pre, cur.sid))
        /\ IsOkStep =>
             /\ DOMAIN View' = DOMAIN View
             /\ \A t \in DOMAIN View \ {cur.sid} : View'[t] = View[t]
        /\ (pc = "idle" /\ pc' = "idle") => \E s \in Sessions : View' = Ext(View, s)
      ]_vars

\* a failed call on a new session has left it in the store, empty, next to
\* a session that holds a turn
C8_Witness ==
    /\ result.kind = "error"
    /\ DOMAIN store = Sessions
    /\ \E s \in Sessions : View[s] = <<>>
    /\ \E s \in Sessions : Len(View[s]) = 2

\* C9: get_by_session_id on a key that is not in the store adds that one
\* key bound to a new empty history, returns it and leaves every other entry
\* as it was; on a key in the store it returns the bound history and leaves
\* the store as it was. It always returns a history.
C9_GetOrCreate ==
    [][ \A s \in Sessions : GetBySessionId(s) =>
          /\ result'.kind = "history"
          /\ IF s \notin DOMAIN store
             THEN /\ DOMAIN store' = DOMAIN store \cup {s}
                  /\ result'.val = store'[s]
                  /\ \A t \in DOMAIN store : store'[t] # store'[s]
                  /\ heap'[result'.val] = <<>>
                  /\ \A t \in DOMAIN store : store'[t] = store[t] /\ View'[t] = View[t]
             ELSE /\ store' = store
                  /\ View' = View
                  /\ result'.val = store[s]
                  /\ heap'[result'.val] = View[s]
      ]_vars

\* a lookup has just returned a history: both keys present, one with a turn
C9_Witness ==
    /\ result.kind = "history"
    /\ DOMAIN store = Sessions
    /\ \E s \in Sessions : store[s] = result.val
    /\ \E s \in Sessions : Len(View[s]) = 2

\* C10: under runner calls every stored history has even length and its
\* messages alternate user, assistant, starting with user.
C10_WholeTurns ==
    \A s \in DOMAIN store :
      /\ Len(View[s]) % 2 = 0
      /\ \A i \in 1..Len(View[s]) :
           View[s][i].role = (IF i % 2 = 1 THEN "human" ELSE "ai")

\* a failed call has returned on a session that holds two turns
C10_Witness ==
    /\ result.kind = "error"
    /\ \E s \in DOMAIN store : Len(View[s]) = 4

====
